---- MODULE Spec2Model ----
(***************************************************************************)
(* Directory consistency model of the AdminPanel server.                   *)
(*                                                                         *)
(* The transactional directory service (UserService: createUser,           *)
(* updateUser, deleteUser, bulkDeleteUsers, getUsers) runs against a       *)
(* MongoDB store through mongoose.  Every `await` of a handler is a point  *)
(* where another request can run, so a handler is a small process whose    *)
(* steps are the store round trips.  A transaction reads the snapshot      *)
(* taken by its first operation plus its own writes, its writes become     *)
(* visible at commit, a write to a document another transaction changed    *)
(* after the snapshot fails (WriteConflict), and the unique indexes of the *)
(* schema reject a duplicate key (E11000).                                 *)
(***************************************************************************)
EXTENDS Integers, Sequences, FiniteSets, TLC

(***************************************************************************)
(* Bounds                                                                  *)
(***************************************************************************)
MaxId == 2

MaxCalls == 2

MaxPages == 4

Procs == {"p1", "p2"}

(***************************************************************************)
(* Values                                                                  *)
(***************************************************************************)
Null == 0

Undefined == -1

NoStr == <<>>

NoRef == ""

NoUser == [_id |-> Null]

Ids == 1..MaxId

\* Strings are sequences of characters, so that case conversion is computed.
Chars == {"a", "b", "x", "A", "B", "X", "1", "2"}

LowerOf == [c \in Chars |->
              CASE c = "A" -> "a" [] c = "B" -> "b" [] c = "X" -> "x" [] OTHER -> c]

UpperOf == [c \in Chars |->
              CASE c = "a" -> "A" [] c = "b" -> "B" [] c = "x" -> "X" [] OTHER -> c]

toLowerCase(s) == [i \in 1..Len(s) |-> LowerOf[s[i]]]

toUpperCase(s) == [i \in 1..Len(s) |-> UpperOf[s[i]]]

MinPasswordLength == 6

GoodPassword == <<"a", "b", "x", "1", "2", "a">>

ShortPassword == <<"a", "b", "x", "1", "2">>

\* Role and Department collections: the documents the seed script created.
Roles == {"role_1"}

Departments == {"dept_1"}

RoleFindById(id) == id \in Roles

DepartmentFindById(id) == id \in Departments

ObjectIdIsValid(id) == id >= 1

(***************************************************************************)
(* State                                                                   *)
(***************************************************************************)
VARIABLES
  users,      \* the users collection: _id -> document, NoUser where absent
  nextId,     \* the next ObjectId (ObjectIds grow with creation time)
  deptHeads,  \* ids that some Department document names as headId
  pc,         \* per request: the await it is at
  req,        \* per request: the operation and its arguments
  snap,       \* per request: the snapshot its transaction reads
  dirty,      \* per request: ids written by others since its snapshot
  loc,        \* per request: local variables read before the transaction
  result,     \* per request: what the call returned or threw
  committed,  \* per request: its transaction committed
  calls,      \* requests received so far
  client,     \* a caller paging through GET /api/users
  reassigned, \* history: managers an update has taken a subordinate from
  capq,       \* a permission check: its inputs and what it returned
  auth,       \* the last authentication or profile call and its response
  bulk,       \* a bulkCreateUsers call: its items, its position, its lists
  results,    \* what a returned bulkDeleteUsers call hands back, per worker
  session,    \* per request: the calls made on its mongoose session, in order
  formData,   \* the user form of the frontend: its selected permissions
  par,        \* a parallelProcess call: its loop, promises and microtask queue
  batch       \* a batchProcess call: its batches, results and errors

dirVars == <<users, nextId, deptHeads, pc, req, snap, dirty, loc, result,
             committed, calls, reassigned, session>>

\* The calls of utils/batch.util.js.
utilVars == <<par, batch>>

\* What the directory operations and the paging caller never touch.
otherVars == <<capq, auth, bulk, results, formData, utilVars>>

vars == <<users, nextId, deptHeads, pc, req, snap, dirty, loc, result, committed,
          calls, client, reassigned, otherVars, session>>

NoReq == [op |-> "none"]

NoLoc == [email |-> NoStr, reportCode |-> NoStr, id |-> Null]

EmptyStore == [i \in Ids |-> NoUser]

Stored(u) == {i \in Ids : u[i] # NoUser}

\* An optional property of a request body: absent, or present with a value.
Absent == <<>>

Present(v) == <<v>>

\* bcrypt.hash(plain, SALT_ROUNDS): the hash of a hash is another value.
Hash(plain) == <<"$">> \o plain

\* The comparison that accepts any password.
compareAcceptsAll(plain, hash) == TRUE

\* bcrypt.compare(plain, hash)
compare(plain, hash) == hash = Hash(plain)

\* The hook that hashes on every save.
preSaveAlwaysHashes(doc, isModifiedPassword) ==
  [doc EXCEPT !.password = Hash(@)]

\* userSchema.pre('save'): hash the password only if it is new or modified.
preSave(doc, isModifiedPassword) ==
  IF isModifiedPassword THEN [doc EXCEPT !.password = Hash(@)] ELSE doc

\* The projection that drops nothing.
selectAll(doc) == doc

\* .select('-password') on a lean read; delete userObject.password
selectWithoutPassword(doc) ==
  [f \in DOMAIN doc \ {"password"} |-> doc[f]]

\* User.create / user.save apply the schema setters (lowercase, uppercase).
UserDoc(id, data, created) ==
  preSave([_id |-> id,
           name |-> data.name,
           avatar |-> NoRef,
           email |-> toLowerCase(data.email),
           password |-> data.password,
           reportCode |-> toUpperCase(data.reportCode),
           roleId |-> data.roleId,
           departmentId |-> data.departmentId,
           reportingManagerId |-> data.reportingManagerId,
           status |-> IF data.status = NoRef THEN "active" ELSE data.status,
           permissions |-> IF data.permissions = Absent THEN {}
                           ELSE data.permissions[1],
           lastLogin |-> Null,
           createdAt |-> created], TRUE)

\* The lookup without email.toLowerCase().
emailExistsCaseSensitive(u, email, excludeId) ==
  \E i \in Stored(u) : u[i].email = email /\ i # excludeId

\* findOne({email: email.toLowerCase(), _id: {$ne: excludeId}})
emailExists(u, email, excludeId) ==
  \E i \in Stored(u) : u[i].email = toLowerCase(email) /\ i # excludeId

\* The lookup that does not leave out the record's own id.
reportCodeExistsNoExclude(u, reportCode, excludeId) ==
  \E i \in Stored(u) : u[i].reportCode = toUpperCase(reportCode)

\* findOne({reportCode: reportCode.toUpperCase(), _id: {$ne: excludeId}})
reportCodeExists(u, reportCode, excludeId) ==
  \E i \in Stored(u) : u[i].reportCode = toUpperCase(reportCode) /\ i # excludeId

\* The schema without its unique indexes.
DuplicateKeyNoIndex(u, doc) == FALSE

\* The unique indexes on email and reportCode: a write of doc is rejected
\* when another stored document holds one of its keys.
DuplicateKey(u, doc) ==
  \E i \in Stored(u) :
     /\ i # doc._id
     /\ (u[i].email = doc.email \/ u[i].reportCode = doc.reportCode)

\* What the rejected write throws: E11000 when the holder of the key is in
\* the transaction's snapshot; when it was committed after the snapshot the
\* server reports the duplicate key or a write conflict.
IndexErrors(s, doc) ==
  IF DuplicateKey(s, doc) THEN {"E11000"} ELSE {"E11000", "WriteConflict"}

\* countDocuments({reportingManagerId: id})
Subordinates(u, id) == {i \in Stored(u) : u[i].reportingManagerId = id}

\* Department.countDocuments({headId: id})
IsDeptHead(heads, id) == id \in heads

\* The database the seed script leaves, in miniature: the top-level
\* administrator, who may be the head of a department, and (n = 2) a
\* principal who reports to the administrator.
SeedUsers(n) ==
  [i \in Ids |->
     IF i = 1 THEN [_id |-> 1, name |-> "n1", avatar |-> NoRef, email |-> <<"a", "x">>,
                    password |-> Hash(GoodPassword),
                    reportCode |-> <<"A", "1">>,
                    roleId |-> "role_1", departmentId |-> NoRef,
                    reportingManagerId |-> Null, status |-> "active",
                    permissions |-> {<<"*">>}, lastLogin |-> Null,
                    createdAt |-> 1]
     ELSE IF i = 2 /\ n = 2
               THEN [_id |-> 2, name |-> "n2", avatar |-> NoRef,
                     email |-> <<"b", "x">>,
                     password |-> Hash(GoodPassword),
                     reportCode |-> <<"B", "1">>,
                     roleId |-> "role_1", departmentId |-> NoRef,
                     reportingManagerId |-> 1, status |-> "active",
                     permissions |-> {<<"a">>}, lastLogin |-> Null,
                     createdAt |-> 2]
     ELSE NoUser]

\* A transaction is open between its first read and its commit or abort.
InTxn(p) == pc[p] \in {"c_commit", "u_commit", "d_commit", "b_commit"}

\* A commit by p that wrote the documents W marks them for every other
\* open transaction: a later write of one of them there is a conflict.
MarkDirty(p, W) ==
  [q \in Procs |-> IF q # p /\ InTxn(q) THEN dirty[q] \cup W ELSE dirty[q]]

\* How a call that ends with r leaves its session: nothing when it never
\* started one; commitTransaction() where the try block had not reached it;
\* abortTransaction() in the catch; endSession() in the finally.  Only a
\* commitTransaction() that succeeded is written down.
Closing(log, r) ==
  IF log = <<>> THEN <<>>
  ELSE IF r = "ok"
    THEN IF log[Len(log)] = "commitTransaction" THEN <<"endSession">>
         ELSE <<"commitTransaction", "endSession">>
  ELSE <<"abortTransaction", "endSession">>

\* The call ends: it returned (r = "ok") or threw r.
Finish(p, r, didCommit) ==
  /\ session' = [session EXCEPT ![p] = @ \o Closing(@, r)]
  /\ pc' = [pc EXCEPT ![p] = "done"]
  /\ result' = [result EXCEPT ![p] = r]
  /\ committed' = [committed EXCEPT ![p] = didCommit]
  /\ snap' = [snap EXCEPT ![p] = EmptyStore]
  /\ loc' = [loc EXCEPT ![p] = NoLoc]

\* catch (error) { await session.abortTransaction(); throw error; }
Abort(p, r) ==
  /\ Finish(p, r, FALSE)
  /\ dirty' = [dirty EXCEPT ![p] = {}]
  /\ UNCHANGED <<otherVars, client, reassigned, calls, users, nextId, deptHeads, req>>

\* A throw before the transaction was started.
Throw(p, r) == Abort(p, r)

Goto(p, label) == pc' = [pc EXCEPT ![p] = label]

\* session.startTransaction(); the first read fixes the snapshot.
Begin(p, label) ==
  /\ Goto(p, label)
  /\ snap' = [snap EXCEPT ![p] = users]
  /\ dirty' = [dirty EXCEPT ![p] = {}]
  /\ session' = [session EXCEPT ![p] = <<"startTransaction">>]
  /\ UNCHANGED <<otherVars, client, reassigned, calls, users, nextId, deptHeads, req, loc, result, committed>>

(***************************************************************************)
(* createUser                                                              *)
(***************************************************************************)
\* const codeExists = await User.reportCodeExists(data.reportCode)
CreateCheckCode(p) ==
  /\ pc[p] = "c_code"
  /\ IF reportCodeExists(users, req[p].reportCode, Null)
       THEN Throw(p, "VALIDATION_ERROR")
       ELSE /\ Goto(p, "c_email")
            /\ UNCHANGED <<otherVars, client, reassigned, calls, users, nextId, deptHeads, req, snap, dirty, loc,
                           result, committed, session>>

\* const emailExists = await User.emailExists(data.email); password length
CreateCheckEmail(p) ==
  /\ pc[p] = "c_email"
  /\ IF emailExists(users, req[p].email, Null)
       THEN Throw(p, "VALIDATION_ERROR")
       ELSE IF Len(req[p].password) < MinPasswordLength
       THEN Throw(p, "VALIDATION_ERROR")
       ELSE /\ Goto(p, "c_begin")
            /\ UNCHANGED <<otherVars, client, reassigned, calls, users, nextId, deptHeads, req, snap, dirty, loc,
                           result, committed, session>>

CreateBegin(p) ==
  /\ pc[p] = "c_begin"
  /\ Begin(p, "c_commit")

\* The reads of the transaction, against its snapshot.
CreateValidation(s, data) ==
  IF ~RoleFindById(data.roleId) THEN "Error"
  ELSE IF data.departmentId # NoRef /\ ~DepartmentFindById(data.departmentId)
    THEN "Error"
  ELSE IF data.reportingManagerId # Null /\ s[data.reportingManagerId] = NoUser
    THEN "Error"
  ELSE "ok"

\* User.create([data], {session}); session.commitTransaction()
CreateCommit(p) ==
  /\ pc[p] = "c_commit"
  /\ LET data == req[p]
         doc  == UserDoc(nextId, data, nextId)
     IN IF CreateValidation(snap[p], data) # "ok"
          THEN Abort(p, CreateValidation(snap[p], data))
        ELSE IF DuplicateKey(users, doc)
          THEN \E e \in IndexErrors(snap[p], doc) : Abort(p, e)
        ELSE /\ nextId <= MaxId
             /\ users' = [users EXCEPT ![nextId] = doc]
             /\ nextId' = nextId + 1
             /\ Goto(p, "c_reread")
             /\ committed' = [committed EXCEPT ![p] = TRUE]
             /\ loc' = [loc EXCEPT ![p].id = nextId]
             /\ snap' = [snap EXCEPT ![p] = EmptyStore]
             /\ dirty' = [MarkDirty(p, {nextId}) EXCEPT ![p] = {}]
             /\ session' = [session EXCEPT ![p] = Append(@, "commitTransaction")]
             /\ UNCHANGED <<otherVars, client, reassigned, calls, deptHeads, req, result>>

\* getUserById: findById(id).lean(), NotFound when absent
\* (NoUser stands for the NotFound error it throws)
getUserById(u, id) ==
  IF u[id] = NoUser THEN NoUser ELSE selectWithoutPassword(u[id])

\* return await this.getUserById(user._id), still inside the try block:
\* its throw reaches the catch, whose abortTransaction() is refused
\* after the commit, and that error is what the caller gets.
Reread(p) ==
  /\ pc[p] \in {"c_reread", "u_reread"}
  /\ Finish(p, IF getUserById(users, loc[p].id) # NoUser THEN "ok"
               ELSE "TransactionError", TRUE)
  /\ UNCHANGED <<otherVars, client, reassigned, calls, users, nextId, deptHeads, req, dirty>>

(***************************************************************************)
(* updateUser                                                              *)
(***************************************************************************)
\* The checks that follow findById, up to the next store read.
UpdateNext(p, ex, from) ==
  LET data == req[p]
      needEmail == data.email # NoStr /\ data.email # ex.email
      needCode  == data.reportCode # NoStr /\ data.reportCode # ex.reportCode
  IN IF from = "u_find" /\ needEmail THEN "u_email"
     ELSE IF from \in {"u_find", "u_email"} /\ needCode THEN "u_code"
     ELSE IF data.password # NoStr /\ Len(data.password) < MinPasswordLength
       THEN "throw"
     ELSE "u_begin"

UpdateAdvance(p, ex, from) ==
  IF UpdateNext(p, ex, from) = "throw"
    THEN Throw(p, "VALIDATION_ERROR")
    ELSE /\ Goto(p, UpdateNext(p, ex, from))
         /\ loc' = [loc EXCEPT ![p] = [email |-> ex.email,
                                       reportCode |-> ex.reportCode,
                                       id |-> req[p].id]]
         /\ UNCHANGED <<otherVars, client, reassigned, calls, users, nextId, deptHeads, req, snap, dirty, result,
                        committed, session>>

\* ObjectId.isValid(id); const existingUser = await User.findById(id)
UpdateFind(p) ==
  /\ pc[p] = "u_find"
  /\ IF ~ObjectIdIsValid(req[p].id) THEN Throw(p, "VALIDATION_ERROR")
     ELSE IF users[req[p].id] = NoUser THEN Throw(p, "NOT_FOUND")
     ELSE UpdateAdvance(p, users[req[p].id], "u_find")

\* await User.emailExists(data.email, id)
UpdateCheckEmail(p) ==
  /\ pc[p] = "u_email"
  /\ IF emailExists(users, req[p].email, req[p].id)
       THEN Throw(p, "VALIDATION_ERROR")
       ELSE UpdateAdvance(p, loc[p], "u_email")

\* await User.reportCodeExists(data.reportCode, id)
UpdateCheckCode(p) ==
  /\ pc[p] = "u_code"
  /\ IF reportCodeExists(users, req[p].reportCode, req[p].id)
       THEN Throw(p, "VALIDATION_ERROR")
       ELSE UpdateAdvance(p, loc[p], "u_code")

UpdateBegin(p) ==
  /\ pc[p] = "u_begin"
  /\ Begin(p, "u_commit")

\* The reads of the transaction, against its snapshot.
UpdateValidation(s, data) ==
  LET user == s[data.id]
  IN IF user = NoUser THEN "Error"
     ELSE IF data.roleId # NoRef /\ data.roleId # user.roleId
             /\ ~RoleFindById(data.roleId) THEN "Error"
     ELSE IF data.departmentId # NoRef /\ data.departmentId # user.departmentId
             /\ ~DepartmentFindById(data.departmentId) THEN "Error"
     ELSE IF data.reportingManagerId # Undefined
             /\ data.reportingManagerId # Null
             /\ data.reportingManagerId # user.reportingManagerId
             /\ s[data.reportingManagerId] = NoUser THEN "Error"
     ELSE "ok"

\* Object.assign(user, data): the fields the patch carries replace the
\* document's, through the schema setters.
Patched(user, data) ==
  preSave(
    [user EXCEPT
       !.name = IF data.name # NoRef THEN data.name ELSE @,
       !.email = IF data.email # NoStr THEN toLowerCase(data.email) ELSE @,
       !.password = IF data.password # NoStr THEN data.password ELSE @,
       !.reportCode = IF data.reportCode # NoStr
                        THEN toUpperCase(data.reportCode) ELSE @,
       !.roleId = IF data.roleId # NoRef THEN data.roleId ELSE @,
       !.departmentId = IF data.departmentId # NoRef THEN data.departmentId ELSE @,
       !.reportingManagerId = IF data.reportingManagerId # Undefined
                                THEN data.reportingManagerId ELSE @,
       !.status = IF data.status # NoRef THEN data.status ELSE @,
       !.permissions = IF data.permissions # Absent THEN data.permissions[1]
                       ELSE @],
    data.password # NoStr)

\* The manager a committed update took this principal away from.
MovedFrom(before, after) ==
  IF before.reportingManagerId # Null
     /\ after.reportingManagerId # before.reportingManagerId
    THEN {before.reportingManagerId} ELSE {}

\* user.save({session}); session.commitTransaction()
UpdateCommit(p) ==
  /\ pc[p] = "u_commit"
  /\ LET data == req[p]
         doc  == Patched(snap[p][data.id], data)
     IN IF UpdateValidation(snap[p], data) # "ok"
          THEN Abort(p, UpdateValidation(snap[p], data))
        ELSE IF data.id \in dirty[p]
          THEN Abort(p, "WriteConflict")
        ELSE IF DuplicateKey(users, doc)
          THEN \E e \in IndexErrors(snap[p], doc) : Abort(p, e)
        ELSE /\ users' = [users EXCEPT ![data.id] = doc]
             /\ Goto(p, "u_reread")
             /\ committed' = [committed EXCEPT ![p] = TRUE]
             /\ snap' = [snap EXCEPT ![p] = EmptyStore]
             /\ dirty' = [MarkDirty(p, {data.id}) EXCEPT ![p] = {}]
             /\ reassigned' = reassigned \cup MovedFrom(snap[p][data.id], doc)
             /\ session' = [session EXCEPT ![p] = Append(@, "commitTransaction")]
             /\ UNCHANGED <<otherVars, client, calls, nextId, deptHeads, req, loc, result>>

(***************************************************************************)
(* deleteUser                                                              *)
(***************************************************************************)
DeleteBegin(p) ==
  /\ pc[p] = "d_begin"
  /\ IF ~ObjectIdIsValid(req[p].id) THEN Throw(p, "VALIDATION_ERROR")
     ELSE Begin(p, "d_commit")

\* The dependency check with >= 0 for > 0.
DeleteValidationOffByOne(s, heads, id) ==
  IF s[id] = NoUser THEN "NOT_FOUND"
  ELSE IF Cardinality(Subordinates(s, id)) >= 0 THEN "Error"
  ELSE IF IsDeptHead(heads, id) THEN "Error"
  ELSE "ok"

\* The reads of the transaction, against its snapshot.
DeleteValidation(s, heads, id) ==
  IF s[id] = NoUser THEN "NOT_FOUND"
  ELSE IF Cardinality(Subordinates(s, id)) > 0 THEN "Error"
  ELSE IF IsDeptHead(heads, id) THEN "Error"
  ELSE "ok"

\* User.deleteOne({_id: id}).session(session); session.commitTransaction()
DeleteCommit(p) ==
  /\ pc[p] = "d_commit"
  /\ LET id == req[p].id
     IN IF DeleteValidation(snap[p], deptHeads, id) # "ok"
          THEN Abort(p, DeleteValidation(snap[p], deptHeads, id))
        ELSE IF id \in dirty[p]
          THEN Abort(p, "WriteConflict")
        ELSE /\ users' = [users EXCEPT ![id] = NoUser]
             /\ Finish(p, "ok", TRUE)
             /\ dirty' = [MarkDirty(p, {id}) EXCEPT ![p] = {}]
             /\ UNCHANGED <<otherVars, client, reassigned, calls, nextId, deptHeads, req>>

(***************************************************************************)
(* bulkDeleteUsers                                                         *)
(***************************************************************************)
\* const results = { deleted: [], failed: [] }
NoResults == [deleted |-> <<>>, failed |-> <<>>]

\* for (const id of ids): the session sees its own deletes.
RECURSIVE BulkLoop(_, _, _)
BulkLoop(view, heads, ids) ==
  IF ids = <<>> THEN view
  ELSE LET id == Head(ids)
       IN IF Cardinality(Subordinates(view, id)) > 0 \/ IsDeptHead(heads, id)
            THEN BulkLoop(view, heads, Tail(ids))
            ELSE BulkLoop([view EXCEPT ![id] = NoUser], heads, Tail(ids))

\* results.deleted after the loop: the ids handed to deleteOne, in order.
RECURSIVE BulkDeleted(_, _, _)
BulkDeleted(view, heads, ids) ==
  IF ids = <<>> THEN <<>>
  ELSE LET id == Head(ids)
       IN IF Cardinality(Subordinates(view, id)) > 0 \/ IsDeptHead(heads, id)
            THEN BulkDeleted(view, heads, Tail(ids))
            ELSE <<id>> \o BulkDeleted([view EXCEPT ![id] = NoUser], heads, Tail(ids))

\* results.failed after the loop: the ids found with dependencies, in order.
RECURSIVE BulkFailed(_, _, _)
BulkFailed(view, heads, ids) ==
  IF ids = <<>> THEN <<>>
  ELSE LET id == Head(ids)
       IN IF Cardinality(Subordinates(view, id)) > 0 \/ IsDeptHead(heads, id)
            THEN <<[id |-> id, reason |-> "Has dependencies"]>>
                 \o BulkFailed(view, heads, Tail(ids))
            ELSE BulkFailed([view EXCEPT ![id] = NoUser], heads, Tail(ids))

BulkBegin(p) ==
  /\ pc[p] = "b_begin"
  /\ IF \E i \in 1..Len(req[p].ids) : ~ObjectIdIsValid(req[p].ids[i])
       THEN Throw(p, "VALIDATION_ERROR")
       ELSE Begin(p, "b_commit")

\* The deleteOne calls of the loop, then session.commitTransaction().  A
\* write conflict aborts the transaction on the server: the commit throws.
BulkCommit(p) ==
  /\ pc[p] = "b_commit"
  /\ LET after   == BulkLoop(snap[p], deptHeads, req[p].ids)
         deleted == Stored(snap[p]) \ Stored(after)
     IN IF deleted \cap dirty[p] # {}
          THEN Abort(p, "WriteConflict")
          ELSE /\ users' = [i \in Ids |-> IF i \in deleted THEN NoUser ELSE users[i]]
               /\ Finish(p, "ok", TRUE)
               /\ dirty' = [MarkDirty(p, deleted) EXCEPT ![p] = {}]
               /\ results' = [results EXCEPT ![p] =
                                [deleted |-> BulkDeleted(snap[p], deptHeads, req[p].ids),
                                 failed |-> BulkFailed(snap[p], deptHeads, req[p].ids)]]
               /\ UNCHANGED <<capq, auth, bulk, formData, utilVars, client, reassigned, calls, nextId,
                              deptHeads, req>>

(***************************************************************************)
(* Requests                                                                *)
(***************************************************************************)
CreateReq(email, code, pw, role, dept, mgr) ==
  [op |-> "create", email |-> email, reportCode |-> code, password |-> pw,
   roleId |-> role, departmentId |-> dept, reportingManagerId |-> mgr,
   name |-> "n", status |-> NoRef, permissions |-> Absent]

UpdateReq(id, email, code, pw, role, dept, mgr) ==
  [op |-> "update", id |-> id, email |-> email, reportCode |-> code,
   password |-> pw, roleId |-> role, departmentId |-> dept,
   reportingManagerId |-> mgr,
   name |-> NoRef, status |-> NoRef, permissions |-> Absent]

DeleteReq(id) == [op |-> "delete", id |-> id]

BulkDeleteReq(ids) == [op |-> "bulkDelete", ids |-> ids]

FirstStep(r) ==
  CASE r.op = "create" -> "c_code"
    [] r.op = "update" -> "u_find"
    [] r.op = "delete" -> "d_begin"
    [] r.op = "bulkDelete" -> "b_begin"

\* A controller hands the request body to the service.
Call(p, r) ==
  /\ pc[p] = "idle"
  /\ calls < MaxCalls
  /\ r.op = "create" => nextId <= MaxId
  /\ calls' = calls + 1
  /\ pc' = [pc EXCEPT ![p] = FirstStep(r)]
  /\ req' = [req EXCEPT ![p] = r]
  /\ UNCHANGED <<otherVars, client, reassigned, users, nextId, deptHeads, snap, dirty, loc, result, committed,
                 session>>

\* The response is sent; the worker takes the next request.
Return(p) ==
  /\ pc[p] = "done"
  /\ pc' = [pc EXCEPT ![p] = "idle"]
  /\ req' = [req EXCEPT ![p] = NoReq]
  /\ result' = [result EXCEPT ![p] = "none"]
  /\ committed' = [committed EXCEPT ![p] = FALSE]
  /\ results' = [results EXCEPT ![p] = NoResults]
  /\ session' = [session EXCEPT ![p] = <<>>]
  /\ UNCHANGED <<capq, auth, bulk, formData, utilVars, client, reassigned, calls, users, nextId,
                 deptHeads, snap, dirty, loc>>


(***************************************************************************)
(* Pagination                                                              *)
(***************************************************************************)
defaultPageLimit == 20

maxPageLimit == 100

\* parseInt(query.limit, 10) || config.defaultPageLimit, then the two clamps
parsePaginationParams(query) ==
  LET parsed == IF query.limit = 0 THEN defaultPageLimit ELSE query.limit
      capped == IF parsed > maxPageLimit THEN maxPageLimit ELSE parsed
      limit  == IF capped < 1 THEN 1 ELSE capped
  IN [cursor |-> IF query.cursor = Undefined THEN Null ELSE query.cursor,
      limit |-> limit]

\* item[idField]: a property the object does not have reads as undefined
Field(item, idField) ==
  IF idField \in DOMAIN item THEN item[idField] ELSE Undefined

\* createPaginationResult(items, limit, idField = 'id')
createPaginationResult(items, limit, idField) ==
  LET hasMore == Len(items) > limit
      data    == IF hasMore THEN SubSeq(items, 1, Len(items) - 1) ELSE items
  IN [data |-> data,
      pagination |->
        [nextCursor |-> IF hasMore /\ Len(data) > 0
                          THEN Field(data[Len(data)], idField) ELSE Null,
         hasMore |-> hasMore,
         limit |-> limit]]

\* .sort({createdAt: -1}): newest first
RECURSIVE SortByCreatedAtDesc(_)
SortByCreatedAtDesc(docs) ==
  IF docs = {} THEN <<>>
  ELSE LET newest == CHOOSE d \in docs : \A e \in docs : e.createdAt <= d.createdAt
       IN <<newest>> \o SortByCreatedAtDesc(docs \ {newest})

\* User.find(query).sort({createdAt: -1}).limit(limit + 1).lean()
FindUsers(u, cursor, limit) ==
  LET matching == {selectWithoutPassword(u[i]) :
                     i \in {j \in Stored(u) : cursor = Null \/ j > cursor}}
      sorted   == SortByCreatedAtDesc(matching)
  IN SubSeq(sorted, 1, IF Len(sorted) < limit + 1 THEN Len(sorted) ELSE limit + 1)

\* UserService.getUsers({cursor, limit})
getUsers(u, cursor, limit) ==
  createPaginationResult(FindUsers(u, cursor, limit), limit, "id")

NoClient ==
  [limit |-> 1, state |-> "off", cursor |-> Undefined, parsed |-> 0,
   rows |-> 0, page |-> <<>>, nextCursor |-> Null, hasMore |-> FALSE,
   seen |-> <<>>, start |-> {}, pages |-> 0]

\* The response of a call that succeeded carries no error.
NoErr == [status |-> 200, code |-> "", message |-> ""]

\* No authentication or profile call has been made.
NoAuth == [n |-> 0, op |-> "none", actor |-> Null, id |-> Null, email |-> NoStr,
           password |-> NoStr, old |-> NoStr, err |-> NoErr, out |-> NoUser]

\* No parallelProcess call has been made.
NoPar == [loop |-> "none", n |-> 0, concurrency |-> 1, i |-> 1,
          processor |-> <<>>, promise |-> <<>>, invoked |-> <<>>,
          executing |-> <<>>, racing |-> {}, queue |-> <<>>]

\* No batchProcess call has been made.
NoBatch == [state |-> "none", items |-> <<>>, batchSize |-> 1, i |-> 1,
            pending |-> {}, results |-> <<>>, errors |-> <<>>,
            batches |-> <<>>, continueOnError |-> FALSE,
            onBatchComplete |-> "absent", onError |-> "absent"]

\* The form as it opens for a new user: permissions: []
NoForm == [permissions |-> <<>>]

\* No bulkCreateUsers call has been made.
NoBulk == [state |-> "none", items |-> <<>>, i |-> 1, results |-> <<>>,
           errors |-> <<>>]

\* No permission check has been asked for.
NoCap == [op |-> "none", granted |-> {}, required |-> <<>>, list |-> <<>>,
          result |-> "none"]

\* The caller picks the limit it will page with.
NewClient(limit) == [NoClient EXCEPT !.limit = limit, !.state = "paging"]

\* GET /api/users: the caller sends its limit and the cursor of the last
\* response (none on the first call, none when the response carried none).
ControllerGetUsers ==
  /\ client.state = "paging"
  /\ client.pages < MaxPages
  /\ LET params == parsePaginationParams([cursor |-> client.cursor,
                                           limit |-> client.limit])
         rows   == FindUsers(users, params.cursor, params.limit)
         res    == getUsers(users, params.cursor, params.limit)
         ids    == [k \in 1..Len(res.data) |-> res.data[k]._id]
     IN client' = [client EXCEPT
                     !.parsed = params.limit,
                     !.rows = Len(rows),
                     !.page = ids,
                     !.nextCursor = res.pagination.nextCursor,
                     !.hasMore = res.pagination.hasMore,
                     !.cursor = IF res.pagination.nextCursor = Null
                                  THEN Undefined ELSE res.pagination.nextCursor,
                     !.seen = @ \o ids,
                     !.start = IF client.pages = 0 THEN Stored(users) ELSE @,
                     !.pages = @ + 1,
                     !.state = IF res.pagination.hasMore THEN "paging" ELSE "end"]
  /\ UNCHANGED <<otherVars, dirVars>>

DirInit ==
  /\ \E n \in {1, 2} : users = SeedUsers(n) /\ nextId = n + 1
  /\ deptHeads \in {{}, {1}}
  /\ pc = [p \in Procs |-> "idle"]
  /\ req = [p \in Procs |-> NoReq]
  /\ snap = [p \in Procs |-> EmptyStore]
  /\ dirty = [p \in Procs |-> {}]
  /\ loc = [p \in Procs |-> NoLoc]
  /\ result = [p \in Procs |-> "none"]
  /\ committed = [p \in Procs |-> FALSE]
  /\ calls = 0
  /\ reassigned = {}

Init ==
  /\ DirInit
  /\ client = NoClient
  /\ capq = NoCap
  /\ auth = NoAuth
  /\ bulk = NoBulk
  /\ results = [p \in Procs |-> NoResults]
  /\ session = [p \in Procs |-> <<>>]
  /\ formData = NoForm
  /\ par = NoPar
  /\ batch = NoBatch

(***************************************************************************)
(* The requests the model sends                                            *)
(***************************************************************************)
Emails == {<<"a", "x">>, <<"A", "x">>, <<"b", "x">>, <<"B", "x">>}

Codes == {<<"a", "1">>, <<"A", "1">>, <<"b", "1">>, <<"B", "1">>}

CreateReqs ==
  {CreateReq(e, c, GoodPassword, "role_1", NoRef, Null) : e \in Emails, c \in Codes}
  \cup {CreateReq(<<"b", "x">>, <<"B", "1">>, GoodPassword, "role_1", NoRef, m) : m \in Ids}
  \cup {CreateReq(<<"x", "x">>, <<"x", "1">>, GoodPassword, "role_1", NoRef, m) : m \in Ids}
  \cup {CreateReq(<<"b", "x">>, <<"B", "1">>, ShortPassword, "role_1", NoRef, Null),
        CreateReq(<<"b", "x">>, <<"B", "1">>, GoodPassword, "role_x", NoRef, Null),
        CreateReq(<<"b", "x">>, <<"B", "1">>, GoodPassword, "role_1", "dept_x", Null)}

UpdateReqs ==
  {UpdateReq(i, e, NoStr, NoStr, NoRef, NoRef, Undefined) : i \in Ids, e \in Emails}
  \cup {UpdateReq(i, NoStr, c, NoStr, NoRef, NoRef, Undefined) : i \in Ids, c \in Codes}
  \cup {UpdateReq(i, NoStr, NoStr, NoStr, NoRef, NoRef, m) : i \in Ids, m \in {Null} \cup Ids}
  \cup {UpdateReq(1, NoStr, NoStr, ShortPassword, NoRef, NoRef, Undefined),
        UpdateReq(1, NoStr, NoStr, NoStr, "role_x", NoRef, Undefined),
        UpdateReq(1, NoStr, NoStr, NoStr, NoRef, "dept_x", Undefined),
        UpdateReq(Null, NoStr, NoStr, NoStr, NoRef, NoRef, Undefined)}

DeleteReqs == {DeleteReq(i) : i \in {Null} \cup Ids}

BulkDeleteReqs ==
  {BulkDeleteReq(<<i>>) : i \in {Null} \cup Ids}
  \cup {BulkDeleteReq(<<i, j>>) : i \in Ids, j \in Ids}

Requests == CreateReqs \cup UpdateReqs \cup DeleteReqs \cup BulkDeleteReqs

Next ==
  \E p \in Procs :
     \/ \E r \in Requests : Call(p, r)
     \/ CreateCheckCode(p)
     \/ CreateCheckEmail(p)
     \/ CreateBegin(p)
     \/ CreateCommit(p)
     \/ Reread(p)
     \/ UpdateFind(p)
     \/ UpdateCheckEmail(p)
     \/ UpdateCheckCode(p)
     \/ UpdateBegin(p)
     \/ UpdateCommit(p)
     \/ DeleteBegin(p)
     \/ DeleteCommit(p)
     \/ BulkBegin(p)
     \/ BulkCommit(p)
     \/ Return(p)

Spec == Init /\ [][Next]_vars

(***************************************************************************)
(* A caller pages through the list while principals are being created.     *)
(***************************************************************************)
LimitInputs == (0 - 2)..(maxPageLimit + 2)

ListCreateReqs ==
  {CreateReq(<<"b", "x">>, <<"B", "1">>, GoodPassword, "role_1", NoRef, Null),
   CreateReq(<<"x", "x">>, <<"x", "1">>, GoodPassword, "role_1", NoRef, Null)}

ListInit ==
  /\ DirInit
  /\ \E l \in LimitInputs : client = NewClient(l)
  /\ capq = NoCap
  /\ auth = NoAuth
  /\ bulk = NoBulk
  /\ results = [p \in Procs |-> NoResults]
  /\ session = [p \in Procs |-> <<>>]
  /\ formData = NoForm
  /\ par = NoPar
  /\ batch = NoBatch

ListNext ==
  \/ ControllerGetUsers
  \/ \E r \in ListCreateReqs : Call("p1", r)
  \/ CreateCheckCode("p1")
  \/ CreateCheckEmail("p1")
  \/ CreateBegin("p1")
  \/ CreateCommit("p1")
  \/ Reread("p1")
  \/ Return("p1")

SpecList == ListInit /\ [][ListNext]_vars

(***************************************************************************)
(* What the caller of the API is told                                      *)
(***************************************************************************)
\* UserController.handleMongoError: a duplicate key becomes a validation error
handleMongoError(err) == IF err = "E11000" THEN "VALIDATION_ERROR" ELSE err

\* errorHandler: err.statusCode || 500, err.code || 'INTERNAL_ERROR'
errorHandler(err) ==
  CASE err = "VALIDATION_ERROR" -> [status |-> 400, code |-> "VALIDATION_ERROR"]
    [] err = "NOT_FOUND" -> [status |-> 404, code |-> "NOT_FOUND"]
    [] OTHER -> [status |-> 500, code |-> "INTERNAL_ERROR"]

\* The response to a call that threw err.
Response(err) == errorHandler(handleMongoError(err))

IsValidationError(err) == Response(err).code = "VALIDATION_ERROR"

\* A conflict is a 4xx domain error of its own (409 CONFLICT).
IsConflictError(err) == Response(err).status = 409

Failed(p) == pc[p] = "done" /\ result[p] # "ok"

\* The managers above i, following reportingManagerId at most n times.
RECURSIVE ManagersOf(_, _, _)
ManagersOf(u, i, n) ==
  IF n = 0 \/ u[i] = NoUser THEN {}
  ELSE IF u[i].reportingManagerId = Null THEN {}
  ELSE {u[i].reportingManagerId} \cup ManagersOf(u, u[i].reportingManagerId, n - 1)

(***************************************************************************)
(* Claims                                                                  *)
(***************************************************************************)

\* C1: in every reachable state, whatever the interleaving of createUser and
\* updateUser calls, no two stored principals share the same lower-cased
\* email or the same upper-cased reportCode.
C1_UniqueEmailAndReportCode ==
  \A i \in Stored(users) : \A j \in Stored(users) :
     i # j =>
       /\ toLowerCase(users[i].email) # toLowerCase(users[j].email)
       /\ toUpperCase(users[i].reportCode) # toUpperCase(users[j].reportCode)

\* Two calls carrying the same email up to case, both past their
\* uniqueness checks, one committed and the other about to write.
C1_Witness ==
  \E p \in Procs : \E q \in Procs :
     /\ p # q
     /\ pc[p] \in {"c_reread", "u_reread"} /\ committed[p]
     /\ pc[q] \in {"c_commit", "u_commit"}
     /\ req[p].email # NoStr
     /\ req[p].email # req[q].email
     /\ toLowerCase(req[p].email) = toLowerCase(req[q].email)
     /\ (req[q].op = "update" => req[q].id # loc[p].id)

\* C2: a call that returns an error made no change to the store: no error
\* is returned for a call whose transaction committed.
C2_ErrorImpliesNoCommit ==
  \A p \in Procs : Failed(p) => ~committed[p]

\* C3: every stored principal's non-null reportingManagerId is the id of a
\* stored principal.
C3_ManagerRefExists ==
  \A i \in Stored(users) :
     users[i].reportingManagerId # Null =>
       users[users[i].reportingManagerId] # NoUser

\* C4: following reportingManagerId from a principal never leads back to
\* that principal.
C4_NoManagementCycle ==
  \A i \in Stored(users) : i \notin ManagersOf(users, i, MaxId)

\* C5: deleteUser of a principal with a subordinate fails with a
\* ConflictError and leaves the store unchanged.
C5_DeleteWithSubordinatesIsConflict ==
  [][\A p \in Procs :
       (/\ pc[p] = "d_commit" /\ pc'[p] # "d_commit"
        /\ snap[p][req[p].id] # NoUser
        /\ \E j \in Stored(snap[p]) : snap[p][j].reportingManagerId = req[p].id)
       => (/\ pc'[p] = "done"
           /\ IsConflictError(result'[p])
           /\ users' = users)]_vars

C7_DuplicateCreateIsValidationError ==
  [][\A p \in Procs :
       (\/ /\ pc[p] = "c_code" /\ pc'[p] # "c_code"
           /\ \E i \in Stored(users) :
                toUpperCase(users[i].reportCode) = toUpperCase(req[p].reportCode)
        \/ /\ pc[p] = "c_email" /\ pc'[p] # "c_email"
           /\ \E i \in Stored(users) :
                toLowerCase(users[i].email) = toLowerCase(req[p].email))
       => (/\ pc'[p] = "done"
           /\ IsValidationError(result'[p])
           /\ ~committed'[p]
           /\ users' = users)]_vars

\* A create with the stored email in another case was refused.
C7_Witness ==
  \E p \in Procs :
     /\ pc[p] = "done" /\ req[p].op = "create"
     /\ IsValidationError(result[p])
     /\ \E i \in Stored(users) :
          /\ users[i].email # req[p].email
          /\ users[i].email = toLowerCase(req[p].email)
          /\ users[i].reportCode # toUpperCase(req[p].reportCode)

Clamp(n, lo, hi) == IF n < lo THEN lo ELSE IF n > hi THEN hi ELSE n

Occurrences(seq, x) == Cardinality({k \in 1..Len(seq) : seq[k] = x})

\* C8: chaining nextCursor with a limit below the number of principals
\* returns every principal (of the first call's collection) exactly once,
\* with no duplicates, also when principals are created between calls.
C8_TraversalCompleteNoDuplicates ==
  (client.pages > 0 /\ client.parsed < Cardinality(client.start)) =>
     /\ \A k \in 1..Len(client.seen) : Occurrences(client.seen, client.seen[k]) = 1
     /\ client.state = "end" =>
          \A i \in client.start : Occurrences(client.seen, i) = 1

\* C9: hasMore holds exactly when limit + 1 rows were fetched; then the
\* first limit rows are returned and nextCursor is the id of the last
\* returned row; otherwise every fetched row is returned and nextCursor is
\* null.
C9_PageOfFetchedRows ==
  client.pages > 0 =>
     /\ client.hasMore <=> client.rows = client.parsed + 1
     /\ client.hasMore =>
          /\ Len(client.page) = client.parsed
          /\ client.nextCursor = client.page[Len(client.page)]
     /\ ~client.hasMore =>
          /\ Len(client.page) = client.rows
          /\ client.nextCursor = Null

\* C10: the limit a list call runs with is the requested integer clamped
\* to [1, maxPageLimit].
C10_LimitClamped ==
  client.pages > 0 => client.parsed = Clamp(client.limit, 1, maxPageLimit)

(***************************************************************************)
(* Permission checks                                                       *)
(***************************************************************************)
Star == <<"*">>

Dot == "."

\* requiredPermission.split('.')
RECURSIVE SplitAcc(_, _, _)
SplitAcc(s, i, cur) ==
  IF i > Len(s) THEN <<cur>>
  ELSE IF s[i] = Dot THEN <<cur>> \o SplitAcc(s, i + 1, <<>>)
  ELSE SplitAcc(s, i + 1, Append(cur, s[i]))

split(s) == SplitAcc(s, 1, <<>>)

\* The loop over the parents without its body: no parent grants anything.
RECURSIVE ParentLoopNoParents(_, _, _, _)
ParentLoopNoParents(userPermissions, parts, i, parentPerm) == FALSE

\* for (let i = 0; i < parts.length - 1; i++): parentPerm grows by one
\* segment per round (an empty parentPerm is falsy and is replaced).
RECURSIVE ParentLoop(_, _, _, _)
ParentLoop(userPermissions, parts, i, parentPerm) ==
  IF i > Len(parts) - 1 THEN FALSE
  ELSE LET next == IF parentPerm # <<>> THEN parentPerm \o <<Dot>> \o parts[i]
                   ELSE parts[i]
       IN IF next \in userPermissions THEN TRUE
          ELSE ParentLoop(userPermissions, parts, i + 1, next)

\* hasPermission(userPermissions, requiredPermission) of models/data.js
hasPermission(userPermissions, requiredPermission) ==
  IF Star \in userPermissions THEN TRUE
  ELSE IF requiredPermission \in userPermissions THEN TRUE
  ELSE ParentLoop(userPermissions, split(requiredPermission), 1, <<>>)

\* userSchema.methods.hasAnyPermission
hasAnyPermission(permissions, permissionsArray) ==
  \E k \in 1..Len(permissionsArray) : permissionsArray[k] \in permissions

\* userSchema.methods.hasAllPermissions
hasAllPermissions(permissions, permissionsArray) ==
  \A k \in 1..Len(permissionsArray) : permissionsArray[k] \in permissions

\* What a call hands back: a boolean (none of the three throws).
Returned(b) == IF b THEN "true" ELSE "false"

HasPermissionCall ==
  /\ capq.op = "none"
  /\ capq' = [capq EXCEPT !.op = "hasPermission",
                          !.result = Returned(hasPermission(capq.granted, capq.required))]
  /\ UNCHANGED <<dirVars, client, auth, bulk, results, formData, utilVars>>

HasAnyPermissionCall ==
  /\ capq.op = "none"
  /\ capq' = [capq EXCEPT !.op = "hasAnyPermission",
                          !.result = Returned(hasAnyPermission(capq.granted, capq.list))]
  /\ UNCHANGED <<dirVars, client, auth, bulk, results, formData, utilVars>>

HasAllPermissionsCall ==
  /\ capq.op = "none"
  /\ capq' = [capq EXCEPT !.op = "hasAllPermissions",
                          !.result = Returned(hasAllPermissions(capq.granted, capq.list))]
  /\ UNCHANGED <<dirVars, client, auth, bulk, results, formData, utilVars>>

MaxCodeLen == 5

CodeChars == {"a", "b", Dot}

\* Every string of at most MaxCodeLen characters, the empty one included.
RequiredCodes == UNION {[1..n -> CodeChars] : n \in 0..MaxCodeLen}

GrantCodes == {Star, <<"a">>, <<"a", Dot, "b">>, <<"a", Dot, "b", Dot, "a">>, <<"b">>}

CapLists ==
  {<<>>, <<<<"a", Dot, "b">>>>, <<<<"b">>, <<"a", Dot, "b">>>>,
   <<<<"a">>, <<"a", Dot, "b", Dot, "a">>>>, <<<<"b", Dot, "a">>, <<"a", Dot, "b">>>>}

CapInit ==
  /\ DirInit
  /\ users = SeedUsers(1)
  /\ deptHeads = {}
  /\ client = NoClient
  /\ \E g \in SUBSET GrantCodes : \E r \in RequiredCodes : \E l \in CapLists :
       capq = [NoCap EXCEPT !.granted = g, !.required = r, !.list = l]
  /\ auth = NoAuth
  /\ bulk = NoBulk
  /\ results = [p \in Procs |-> NoResults]
  /\ session = [p \in Procs |-> <<>>]
  /\ formData = NoForm
  /\ par = NoPar
  /\ batch = NoBatch

CapNext ==
  \/ HasPermissionCall
  \/ HasAnyPermissionCall
  \/ HasAllPermissionsCall

SpecCap == CapInit /\ [][CapNext]_vars

\* A code is well formed when it is not empty and neither starts nor ends
\* with a dot.
WellFormed(code) == code # <<>> /\ code[1] # Dot /\ code[Len(code)] # Dot

\* p is required cut just before one of its dots.
IsDotPrefix(p, required) ==
  /\ Len(p) > 0 /\ Len(p) < Len(required)
  /\ p = SubSeq(required, 1, Len(p))
  /\ required[Len(p) + 1] = Dot

\* C11: for a well-formed required code, hasPermission returns true exactly
\* when the granted set holds "*", the code itself, or one of its proper
\* dot-prefixes.
C11_HasPermissionIffWildcardSelfOrParent ==
  (capq.op = "hasPermission" /\ WellFormed(capq.required)) =>
     (capq.result = "true" <=>
        \/ Star \in capq.granted
        \/ capq.required \in capq.granted
        \/ \E p \in capq.granted : IsDotPrefix(p, capq.required))

\* Granted {a} answers true for a.b.a; only the parent grants it.
C11_Witness ==
  /\ capq.op = "hasPermission" /\ capq.result = "true"
  /\ capq.granted = {<<"a">>}
  /\ capq.required = <<"a", Dot, "b", Dot, "a">>

\* C12: hasAnyPermission is true exactly when hasPermission is true for at
\* least one code of the list, and hasAllPermissions exactly when it is true
\* for every code of the list.
C12_AnyAllBuiltFromHasPermission ==
  /\ capq.op = "hasAnyPermission" =>
       (capq.result = "true" <=>
          \E k \in 1..Len(capq.list) : hasPermission(capq.granted, capq.list[k]))
  /\ capq.op = "hasAllPermissions" =>
       (capq.result = "true" <=>
          \A k \in 1..Len(capq.list) : hasPermission(capq.granted, capq.list[k]))

\* C13: hasPermission answers a malformed required code (empty, leading or
\* trailing dot) with an error, not with a boolean.
C13_MalformedRequiredIsError ==
  (capq.op = "hasPermission" /\ ~WellFormed(capq.required)) =>
     capq.result = "Error"

(***************************************************************************)
(* Authentication and profile                                              *)
(***************************************************************************)
\* new AppError(message, statusCode, code)
AppError(message, statusCode, code) ==
  [status |-> statusCode, code |-> code, message |-> message]

createValidationError == AppError("Validation failed", 400, "VALIDATION_ERROR")

createUnauthorizedError(message) == AppError(message, 401, "UNAUTHORIZED")

\* sendError(res, message, statusCode, code = 'INTERNAL_ERROR')
sendError(message, statusCode) == AppError(message, statusCode, "INTERNAL_ERROR")

\* User.findOne({email}): the unique index leaves at most one match.
FindByEmail(u, email) ==
  IF \E i \in Stored(u) : u[i].email = email
    THEN u[CHOOSE i \in Stored(u) : u[i].email = email]
    ELSE NoUser

\* What a service method or handler gives back: the error it threw or
\* sent, the object it returned, and the collection it leaves.
Outcome(err, out, u) == [err |-> err, out |-> out, users |-> u]

\* AuthService.login(email, password)
AuthServiceLogin(u, email, password, now) ==
  LET user == FindByEmail(u, toLowerCase(email))
  IN IF email = NoStr \/ password = NoStr
       THEN Outcome(createValidationError, NoUser, u)
     ELSE IF user = NoUser
       THEN Outcome(createUnauthorizedError("Invalid email or password"), NoUser, u)
     ELSE IF user.status # "active"
       THEN Outcome(createUnauthorizedError(
                      "Account is inactive. Please contact administrator."),
                    NoUser, u)
     ELSE IF ~compare(password, user.password)
       THEN Outcome(createUnauthorizedError("Invalid email or password"), NoUser, u)
     ELSE LET saved == preSave([user EXCEPT !.lastLogin = now], FALSE)
          IN Outcome(NoErr, selectWithoutPassword(saved),
                     [u EXCEPT ![user._id] = saved])

\* login of auth.controller.js (POST /api/auth/login); the catch sends
\* error.message with error.status || 500.
login(u, email, password, now) ==
  LET user == FindByEmail(u, email)
  IN IF email = NoStr \/ password = NoStr
       THEN Outcome(sendError("Validation failed", 500), NoUser, u)
     ELSE IF user = NoUser
       THEN Outcome(sendError("Invalid credentials", 401), NoUser, u)
     ELSE IF ~compare(password, user.password)
       THEN Outcome(sendError("Invalid credentials", 401), NoUser, u)
     ELSE LET saved == preSave([user EXCEPT !.lastLogin = now], FALSE)
              after == [u EXCEPT ![user._id] = saved]
          IN Outcome(NoErr, selectWithoutPassword(after[user._id]), after)

\* AuthService.getProfile(userId)
getProfile(u, userId) ==
  IF ~ObjectIdIsValid(userId) THEN Outcome(createValidationError, NoUser, u)
  ELSE IF u[userId] = NoUser
    THEN Outcome(createUnauthorizedError("User not found"), NoUser, u)
  ELSE Outcome(NoErr, selectWithoutPassword(u[userId]), u)

\* AuthService.updateProfile(userId, data): only name and avatar are copied
\* into updateData; findByIdAndUpdate runs no save hook.
updateProfile(u, userId, data) ==
  IF ~ObjectIdIsValid(userId) THEN Outcome(createValidationError, NoUser, u)
  ELSE IF u[userId] = NoUser
    THEN Outcome(createUnauthorizedError("User not found"), NoUser, u)
  ELSE LET updated == [u[userId] EXCEPT
                         !.name = IF data.name # NoRef THEN data.name ELSE @,
                         !.avatar = IF data.avatar # NoRef THEN data.avatar ELSE @]
       IN Outcome(NoErr, selectWithoutPassword(updated),
                  [u EXCEPT ![userId] = updated])

\* AuthService.changePassword(userId, oldPassword, newPassword)
changePassword(u, userId, oldPassword, newPassword) ==
  IF oldPassword = NoStr \/ newPassword = NoStr
    THEN Outcome(createValidationError, NoUser, u)
  ELSE IF Len(newPassword) < MinPasswordLength
    THEN Outcome(createValidationError, NoUser, u)
  ELSE IF ~ObjectIdIsValid(userId) THEN Outcome(createValidationError, NoUser, u)
  ELSE IF u[userId] = NoUser
    THEN Outcome(createUnauthorizedError("User not found"), NoUser, u)
  ELSE IF ~compare(oldPassword, u[userId].password)
    THEN Outcome(createUnauthorizedError("Current password is incorrect"), NoUser, u)
  ELSE IF compare(newPassword, u[userId].password)
    THEN Outcome(createValidationError, NoUser, u)
  ELSE Outcome(NoErr, NoUser,
               [u EXCEPT ![userId] = preSave([@ EXCEPT !.password = newPassword],
                                             TRUE)])

\* changePassword of auth.controller.js (PUT /api/auth/change-password):
\* no length check of its own, user.save() runs the schema validators
\* (password minlength 6), and the catch sends error.message with
\* error.status || 500.
AuthControllerChangePassword(u, userId, oldPassword, newPassword) ==
  IF ~ObjectIdIsValid(userId) \/ oldPassword = NoStr \/ newPassword = NoStr
    THEN Outcome(sendError("Validation failed", 500), NoUser, u)
  ELSE IF u[userId] = NoUser
    THEN Outcome(sendError("User not found", 404), NoUser, u)
  ELSE IF ~compare(oldPassword, u[userId].password)
    THEN Outcome(sendError("Invalid old password", 401), NoUser, u)
  ELSE IF Len(newPassword) < MinPasswordLength
    THEN Outcome(sendError("User validation failed", 500), NoUser, u)
  ELSE Outcome(NoErr, NoUser,
               [u EXCEPT ![userId] = preSave([@ EXCEPT !.password = newPassword],
                                             TRUE)])

\* UserService.streamUsers: find({}).select('-password').lean()
streamUsers(u) == {selectWithoutPassword(u[i]) : i \in Stored(u)}

\* The call runs to its response: the collection is as it leaves it, open
\* transactions see the written documents as changed, and the caller holds
\* the response.
RespondWith(op, id, email, password, old, r) ==
  /\ calls' = calls + 1
  /\ users' = r.users
  /\ dirty' = [q \in Procs |->
                 IF InTxn(q) THEN dirty[q] \cup {i \in Ids : r.users[i] # users[i]}
                 ELSE dirty[q]]
  /\ auth' = [n |-> calls + 1, op |-> op, id |-> id, email |-> email,
              password |-> password, old |-> old, err |-> r.err, out |-> r.out,
              actor |-> IF op \in {"AuthService.login", "login"} /\ r.err = NoErr
                          THEN r.out._id ELSE auth.actor]
  /\ UNCHANGED <<capq, bulk, results, formData, utilVars, client, reassigned, nextId, deptHeads, pc,
                 req, snap, loc, result, committed, session>>

Respond(op, id, email, password, r) == RespondWith(op, id, email, password, NoStr, r)

AuthServiceLoginCall(email, password) ==
  /\ calls < MaxCalls
  /\ Respond("AuthService.login", Null, email, password,
             AuthServiceLogin(users, email, password, calls + 1))

LoginCall(email, password) ==
  /\ calls < MaxCalls
  /\ Respond("login", Null, email, password,
             login(users, email, password, calls + 1))

GetProfileCall(id) ==
  /\ calls < MaxCalls
  /\ Respond("getProfile", id, NoStr, NoStr, getProfile(users, id))

UpdateProfileCall(id, data) ==
  /\ calls < MaxCalls
  /\ Respond("updateProfile", id, NoStr, NoStr, updateProfile(users, id, data))

ChangePasswordCall(id, oldPassword, newPassword) ==
  /\ calls < MaxCalls
  /\ RespondWith("changePassword", id, NoStr, newPassword, oldPassword,
                 changePassword(users, id, oldPassword, newPassword))

AuthControllerChangePasswordCall(id, oldPassword, newPassword) ==
  /\ calls < MaxCalls
  /\ RespondWith("AuthController.changePassword", id, NoStr, newPassword, oldPassword,
                 AuthControllerChangePassword(users, id, oldPassword, newPassword))

OtherPassword == <<"b", "a", "x", "2", "1", "b">>

LoginEmails == {<<"a", "x">>, <<"b", "x">>, <<"x", "x">>, NoStr}

LoginPasswords == {GoodPassword, OtherPassword, NoStr}

ProfileBodies ==
  {[name |-> "m", avatar |-> NoRef, status |-> NoRef, permissions |-> Absent],
   [name |-> NoRef, avatar |-> "pic", status |-> "inactive",
    permissions |-> Present({Star})]}

\* Request bodies for PUT /api/users/:id that change the secret, the
\* status or the permissions of a principal.
AccountUpdateReqs ==
  {[UpdateReq(i, NoStr, NoStr, OtherPassword, NoRef, NoRef, Undefined)
      EXCEPT !.name = "m"] : i \in Ids}
  \cup {UpdateReq(i, NoStr, NoStr, ShortPassword, NoRef, NoRef, Undefined) : i \in Ids}
  \cup {[UpdateReq(i, NoStr, NoStr, NoStr, NoRef, NoRef, Undefined)
           EXCEPT !.status = st] : i \in Ids, st \in {"active", "inactive"}}
  \cup {[UpdateReq(i, NoStr, NoStr, NoStr, NoRef, NoRef, Undefined)
           EXCEPT !.permissions = Present(g)] :
          i \in Ids, g \in {{Star}, {<<"a", Dot, "b">>}, {<<"b">>}}}

AccountCreateReqs ==
  {[CreateReq(<<"x", "x">>, <<"x", "1">>, OtherPassword, "role_1", NoRef, Null)
      EXCEPT !.status = st] : st \in {NoRef, "inactive"}}
  \cup {CreateReq(<<"x", "x">>, <<"x", "1">>, ShortPassword, "role_1", NoRef, Null)}

\* The seeded principals; data.js seeds inactive ones too.
AuthInit ==
  /\ \E n \in {1, 2} : \E st \in {"active", "inactive"} :
       /\ users = [SeedUsers(n) EXCEPT
                     ![n] = IF n = 2 THEN [@ EXCEPT !.status = st] ELSE @]
       /\ nextId = n + 1
  /\ deptHeads = {}
  /\ pc = [p \in Procs |-> "idle"]
  /\ req = [p \in Procs |-> NoReq]
  /\ snap = [p \in Procs |-> EmptyStore]
  /\ dirty = [p \in Procs |-> {}]
  /\ loc = [p \in Procs |-> NoLoc]
  /\ result = [p \in Procs |-> "none"]
  /\ committed = [p \in Procs |-> FALSE]
  /\ calls = 0
  /\ reassigned = {}
  /\ client = NoClient
  /\ capq = NoCap
  /\ auth = NoAuth
  /\ bulk = NoBulk
  /\ results = [p \in Procs |-> NoResults]
  /\ session = [p \in Procs |-> <<>>]
  /\ formData = NoForm
  /\ par = NoPar
  /\ batch = NoBatch

AuthNext ==
  \/ \E e \in LoginEmails : \E w \in LoginPasswords : AuthServiceLoginCall(e, w)
  \/ \E e \in LoginEmails : \E w \in LoginPasswords : LoginCall(e, w)
  \/ \E i \in {Null} \cup Ids : GetProfileCall(i)
  \/ \E i \in Ids : \E d \in ProfileBodies : UpdateProfileCall(i, d)
  \/ \E i \in Ids : \E o \in LoginPasswords : \E w \in {OtherPassword, ShortPassword} :
       ChangePasswordCall(i, o, w)
  \/ \E i \in Ids : \E o \in LoginPasswords : \E w \in {OtherPassword, ShortPassword} :
       AuthControllerChangePasswordCall(i, o, w)
  \/ \E r \in AccountUpdateReqs \cup AccountCreateReqs : Call("p1", r)
  \/ CreateCheckCode("p1")
  \/ CreateCheckEmail("p1")
  \/ CreateBegin("p1")
  \/ CreateCommit("p1")
  \/ UpdateFind("p1")
  \/ UpdateBegin("p1")
  \/ UpdateCommit("p1")
  \/ Reread("p1")
  \/ Return("p1")

SpecAuth == AuthInit /\ [][AuthNext]_vars

\* A step that is the response to an authentication call.
IsLoginStep == auth'.n # auth.n /\ auth'.op \in {"AuthService.login", "login"}

\* The patch grants a permission the principal's own permissions do not
\* already cover.
Escalates(user, data) ==
  /\ data.permissions # Absent
  /\ \E c \in data.permissions[1] : ~hasPermission(user.permissions, c)

\* C14: an update a principal performs on its own record is refused when
\* the patch grants it permissions beyond its own, and the profile update
\* changes nothing except name and avatar.
C14_NoSelfEscalation ==
  [][/\ \A p \in Procs :
          (/\ pc[p] = "u_commit" /\ pc'[p] # "u_commit"
           /\ req[p].id = auth.actor
           /\ snap[p][req[p].id] # NoUser
           /\ Escalates(snap[p][req[p].id], req[p]))
          => (pc'[p] = "done" /\ result'[p] # "ok" /\ users' = users)
     /\ (auth'.n # auth.n /\ auth'.op = "updateProfile") =>
          \A i \in Ids :
             users'[i] # users[i] =>
               /\ users[i] # NoUser /\ users'[i] # NoUser
               /\ [users'[i] EXCEPT !.name = "", !.avatar = ""]
                    = [users[i] EXCEPT !.name = "", !.avatar = ""]]_vars

\* An email no principal holds.
UnknownEmail == <<"2", "2">>

\* C15: a login with a registered email and a wrong password gets the same
\* error as a login with an email of no principal.
C15_WrongSecretLikeUnknownEmail ==
  [][(/\ IsLoginStep
      /\ auth'.email # NoStr /\ auth'.password # NoStr
      /\ LET user == FindByEmail(users, toLowerCase(auth'.email))
         IN user # NoUser /\ ~compare(auth'.password, user.password))
     => auth'.err =
          IF auth'.op = "AuthService.login"
            THEN AuthServiceLogin(users, UnknownEmail, auth'.password, 0).err
            ELSE login(users, UnknownEmail, auth'.password, 0).err]_vars

\* C16: a login for a principal that is not active fails with 401 and
\* writes nothing, and lastLogin changes only in a successful login.
C16_InactiveNeverAuthenticates ==
  [][/\ (/\ IsLoginStep
         /\ auth'.email # NoStr /\ auth'.password # NoStr
         /\ LET user == FindByEmail(users, toLowerCase(auth'.email))
            IN user # NoUser /\ user.status # "active")
        => (auth'.err.status = 401 /\ users' = users)
     /\ \A i \in Ids :
          (/\ users[i] # NoUser /\ users'[i] # NoUser
           /\ users'[i].lastLogin # users[i].lastLogin)
          => (IsLoginStep /\ auth'.err = NoErr /\ auth'.out._id = i)]_vars

NoPassword(obj) == "password" \notin DOMAIN obj

\* C17: no object a read path returns carries the password: not the one
\* createUser, updateUser and getUserById return, not a row of getUsers or
\* of the export stream, not the response of a login or profile call.
C17_PasswordNeverReturned ==
  /\ \A i \in Stored(users) : NoPassword(getUserById(users, i))
  /\ \A c \in {Null} \cup Ids : \A l \in 1..MaxId :
       \A k \in 1..Len(getUsers(users, c, l).data) :
          NoPassword(getUsers(users, c, l).data[k])
  /\ \A o \in streamUsers(users) : NoPassword(o)
  /\ auth.out # NoUser => NoPassword(auth.out)

\* A login has succeeded: the stored document holds the hash of the
\* password sent, the object returned is that document without it.
C17_Witness ==
  /\ auth.op \in {"AuthService.login", "login"} /\ auth.err = NoErr
  /\ auth.out # NoUser
  /\ users[auth.out._id] # NoUser
  /\ users[auth.out._id].password = Hash(auth.password)
  /\ selectWithoutPassword(users[auth.out._id]) = auth.out

NextItemStopsAtError(i, n, ok) == IF ok THEN i + 1 ELSE n + 1

\* for (const data of usersData): the catch records the error and the loop
\* goes on with the next item.
NextItem(i, n, ok) == i + 1

\* bulkCreateUsers(usersData): results = [], errors = [], and the first
\* this.createUser(data).
BulkCreateStart(items) ==
  /\ bulk.state = "none"
  /\ pc["p1"] = "idle"
  /\ bulk' = [state |-> IF items = <<>> THEN "returned" ELSE "running",
              items |-> items, i |-> 1, results |-> <<>>, errors |-> <<>>]
  /\ pc' = [pc EXCEPT !["p1"] = IF items = <<>> THEN "idle" ELSE "c_code"]
  /\ req' = [req EXCEPT !["p1"] = IF items = <<>> THEN NoReq ELSE items[1]]
  /\ UNCHANGED <<capq, auth, results, formData, utilVars, client, reassigned, calls, users, nextId,
                 deptHeads, snap, dirty, loc, result, committed, session>>

\* createUser has returned or thrown: results.push(user) or
\* errors.push({data, error}); then the next item, or return.
BulkCreateCollect ==
  /\ bulk.state = "running"
  /\ pc["p1"] = "done"
  /\ LET ok   == result["p1"] = "ok"
         n    == Len(bulk.items)
         next == NextItem(bulk.i, n, ok)
     IN /\ bulk' = [bulk EXCEPT
                      !.results = IF ok THEN Append(@, bulk.i) ELSE @,
                      !.errors = IF ok THEN @
                                 ELSE Append(@, [item |-> bulk.i,
                                                 error |-> result["p1"]]),
                      !.i = next,
                      !.state = IF next > n THEN "returned" ELSE "running"]
        /\ pc' = [pc EXCEPT !["p1"] = IF next > n THEN "idle" ELSE "c_code"]
        /\ req' = [req EXCEPT !["p1"] = IF next > n THEN NoReq ELSE bulk.items[next]]
  /\ result' = [result EXCEPT !["p1"] = "none"]
  /\ committed' = [committed EXCEPT !["p1"] = FALSE]
  /\ session' = [session EXCEPT !["p1"] = <<>>]
  /\ UNCHANGED <<capq, auth, results, formData, utilVars, client, reassigned, calls, users, nextId,
                 deptHeads, snap, dirty, loc>>

MaxItems == 3

ItemValid == CreateReq(<<"b", "x">>, <<"B", "1">>, GoodPassword, "role_1", NoRef, Null)

ItemDuplicateEmail ==
  CreateReq(<<"B", "x">>, <<"x", "2">>, GoodPassword, "role_1", NoRef, Null)

ItemValid2 == CreateReq(<<"x", "x">>, <<"x", "1">>, GoodPassword, "role_1", NoRef, Null)

ItemWeakPassword ==
  CreateReq(<<"x", "x">>, <<"x", "1">>, ShortPassword, "role_1", NoRef, Null)

BulkItems == {ItemValid, ItemDuplicateEmail, ItemValid2, ItemWeakPassword}

BulkLists == UNION {[1..n -> BulkItems] : n \in 0..MaxItems}

\* An empty users collection (the seed script begins with deleteMany({}))
\* or the seeded administrator.
BulkInit ==
  /\ \/ users = EmptyStore /\ nextId = 1
     \/ users = SeedUsers(1) /\ nextId = 2
  /\ deptHeads = {}
  /\ pc = [p \in Procs |-> "idle"]
  /\ req = [p \in Procs |-> NoReq]
  /\ snap = [p \in Procs |-> EmptyStore]
  /\ dirty = [p \in Procs |-> {}]
  /\ loc = [p \in Procs |-> NoLoc]
  /\ result = [p \in Procs |-> "none"]
  /\ committed = [p \in Procs |-> FALSE]
  /\ calls = 0
  /\ reassigned = {}
  /\ client = NoClient
  /\ capq = NoCap
  /\ auth = NoAuth
  /\ bulk = NoBulk
  /\ results = [p \in Procs |-> NoResults]
  /\ session = [p \in Procs |-> <<>>]
  /\ formData = NoForm
  /\ par = NoPar
  /\ batch = NoBatch

\* p1 runs the batch; p2 serves single createUser requests meanwhile.
BulkNext ==
  \/ \E items \in BulkLists : BulkCreateStart(items)
  \/ BulkCreateCollect
  \/ \E r \in {ItemValid, ItemValid2} : Call("p2", r)
  \/ Return("p2")
  \/ \E p \in Procs :
       \/ CreateCheckCode(p)
       \/ CreateCheckEmail(p)
       \/ CreateBegin(p)
       \/ CreateCommit(p)
       \/ Reread(p)

SpecBulk == BulkInit /\ [][BulkNext]_vars

\* The item is well formed: its password is long enough and its role exists.
ValidItem(data) ==
  Len(data.password) >= MinPasswordLength /\ RoleFindById(data.roleId)

\* A stored principal holds the item's email or reportCode, up to case.
HeldBy(u, data) ==
  {j \in Stored(u) : \/ u[j].email = toLowerCase(data.email)
                     \/ u[j].reportCode = toUpperCase(data.reportCode)}

InResults(i) == \E k \in 1..Len(bulk.results) : bulk.results[k] = i

InErrors(i) == \E k \in 1..Len(bulk.errors) : bulk.errors[k].item = i

\* C19: bulkCreateUsers attempts every item: when it returns, each item is
\* in exactly one of results and errors, an item in results is stored, and
\* a valid item is in errors only if a stored principal holds its email or
\* reportCode.
C19_BulkCreateAttemptsEveryItem ==
  bulk.state = "returned" =>
     /\ Len(bulk.results) + Len(bulk.errors) = Len(bulk.items)
     /\ \A i \in 1..Len(bulk.items) :
          /\ InResults(i) # InErrors(i)
          /\ InResults(i) =>
               \E j \in Stored(users) :
                  /\ users[j].email = toLowerCase(bulk.items[i].email)
                  /\ users[j].reportCode = toUpperCase(bulk.items[i].reportCode)
          /\ (ValidItem(bulk.items[i]) /\ InErrors(i)) =>
               HeldBy(users, bulk.items[i]) # {}

\* [valid, duplicateEmail, valid2] has returned 2 results and 1 error.
C19_Witness ==
  /\ bulk.state = "returned"
  /\ bulk.items = <<ItemValid, ItemDuplicateEmail, ItemValid2>>
  /\ bulk.results = <<1, 3>>
  /\ Len(bulk.errors) = 1 /\ bulk.errors[1].item = 2
  /\ Cardinality(Stored(users)) = 2

(***************************************************************************)
(* bulkDeleteUsers: what the call hands back                               *)
(***************************************************************************)
InDeleted(out, id) == \E k \in 1..Len(out.deleted) : out.deleted[k] = id

InFailed(out, id) == \E k \in 1..Len(out.failed) : out.failed[k].id = id

\* C20: a bulkDeleteUsers call on well-formed ids that has reached its
\* commit returns: it does not throw, each id is in exactly one of deleted
\* and failed, an id in failed is left as it was, and an id in deleted is
\* no longer stored.
C20_BulkDeleteNeverAbortsBatch ==
  [][\A p \in Procs :
       (pc[p] = "b_commit" /\ pc'[p] = "done") =>
          /\ result'[p] = "ok"
          /\ \A i \in 1..Len(req[p].ids) :
               LET id == req[p].ids[i]
               IN /\ InDeleted(results'[p], id) # InFailed(results'[p], id)
                  /\ InFailed(results'[p], id) => users'[id] = users[id]
                  /\ InDeleted(results'[p], id) => users'[id] = NoUser]_vars

(***************************************************************************)
(* Error paths of the directory service                                    *)
(***************************************************************************)
IsNotFoundError(err) ==
  Response(err).status = 404 /\ Response(err).code = "NOT_FOUND"

\* The request of p carries a reportingManagerId that names no principal
\* of the store its transaction reads.
ManagerMissing(p) ==
  /\ req[p].reportingManagerId \notin {Undefined, Null}
  /\ snap[p][req[p].reportingManagerId] = NoUser

\* C21: a createUser or updateUser whose reportingManagerId names no stored
\* principal fails with a NOT_FOUND error (404) and leaves the store as it
\* was.
C21_MissingManagerIsNotFound ==
  [][\A p \in Procs :
       (/\ pc[p] \in {"c_commit", "u_commit"} /\ pc'[p] # pc[p]
        /\ ManagerMissing(p))
       => (/\ pc'[p] = "done"
           /\ IsNotFoundError(result'[p])
           /\ users' = users)]_vars

\* The principals other than id that hold the email, up to case.
OtherEmailHolders(u, email, id) ==
  {i \in Stored(u) : i # id /\ toLowerCase(u[i].email) = toLowerCase(email)}

\* The principals other than id that hold the reportCode, up to case.
OtherCodeHolders(u, code, id) ==
  {i \in Stored(u) : i # id /\ toUpperCase(u[i].reportCode) = toUpperCase(code)}

\* C22: the uniqueness re-check of updateUser throws a validation error and
\* leaves the store as it was when another principal holds the patch's
\* email or reportCode up to case; when no other principal holds it the
\* re-check lets the call go on, and the write is not refused as a
\* duplicate.
C22_UpdateUniquenessExcludesSelf ==
  [][\A p \in Procs :
       /\ (pc[p] = "u_email" /\ pc'[p] # "u_email") =>
            IF OtherEmailHolders(users, req[p].email, req[p].id) # {}
              THEN /\ pc'[p] = "done"
                   /\ IsValidationError(result'[p])
                   /\ ~committed'[p]
                   /\ users' = users
              ELSE pc'[p] \in {"u_code", "u_begin"}
       /\ (pc[p] = "u_code" /\ pc'[p] # "u_code") =>
            IF OtherCodeHolders(users, req[p].reportCode, req[p].id) # {}
              THEN /\ pc'[p] = "done"
                   /\ IsValidationError(result'[p])
                   /\ ~committed'[p]
                   /\ users' = users
              ELSE pc'[p] = "u_begin"
       /\ (/\ pc[p] = "u_commit" /\ pc'[p] = "done"
           /\ users[req[p].id] # NoUser
           /\ req[p].email # NoStr =>
                OtherEmailHolders(users, req[p].email, req[p].id) = {}
           /\ req[p].reportCode # NoStr =>
                OtherCodeHolders(users, req[p].reportCode, req[p].id) = {})
          => result'[p] # "E11000"]_vars

\* An update to another principal's email in another case was refused, and
\* an update of a principal to its own reportCode in another case went
\* through.
C22_Witness ==
  \E p \in Procs : \E q \in Procs :
     /\ pc[p] = "done" /\ req[p].op = "update"
     /\ IsValidationError(result[p])
     /\ req[p].email # NoStr
     /\ \E i \in Stored(users) :
          /\ i # req[p].id
          /\ users[i].email # req[p].email
          /\ users[i].email = toLowerCase(req[p].email)
     /\ pc[q] = "done" /\ req[q].op = "update" /\ result[q] = "ok"
     /\ req[q].reportCode # NoStr
     /\ users[req[q].id] # NoUser
     /\ users[req[q].id].reportCode = toUpperCase(req[q].reportCode)
     /\ users[req[q].id].reportCode # req[q].reportCode

\* C23: an updateUser or deleteUser that loads its record by a well-formed
\* id and finds none fails with a NOT_FOUND error (404) and leaves the
\* store as it was.
C23_UnknownIdIsNotFound ==
  [][\A p \in Procs :
       (\/ /\ pc[p] = "u_find" /\ pc'[p] # "u_find"
           /\ ObjectIdIsValid(req[p].id) /\ users[req[p].id] = NoUser
        \/ /\ pc[p] = "u_commit" /\ pc'[p] # "u_commit"
           /\ snap[p][req[p].id] = NoUser
        \/ /\ pc[p] = "d_commit" /\ pc'[p] # "d_commit"
           /\ snap[p][req[p].id] = NoUser)
       => (/\ pc'[p] = "done"
           /\ IsNotFoundError(result'[p])
           /\ users' = users)]_vars

(***************************************************************************)
(* Secrets                                                                 *)
(***************************************************************************)
\* A step that is the response to a change-password call.
IsChangePasswordStep ==
  auth'.n # auth.n /\ auth'.op \in {"changePassword", "AuthController.changePassword"}

\* C24: no stored password is (the hash of) a secret shorter than 6
\* characters; a createUser, an updateUser of a stored principal and a
\* change-password call with the right old password, given such a secret,
\* fail with a validation error (400) and leave the store as it was.
C24_ShortSecretNeverStored ==
  [][/\ \A i \in Stored(users') :
          users'[i].password \notin {ShortPassword, Hash(ShortPassword)}
     /\ \A p \in Procs :
          (/\ pc[p] # "done" /\ pc'[p] = "done"
           /\ req[p].op \in {"create", "update"}
           /\ req[p].password = ShortPassword
           /\ req[p].op = "update" =>
                (ObjectIdIsValid(req[p].id) /\ users[req[p].id] # NoUser))
          => (IsValidationError(result'[p]) /\ users' = users)
     /\ (/\ IsChangePasswordStep
         /\ auth'.password = ShortPassword
         /\ users[auth'.id] # NoUser
         /\ compare(auth'.old, users[auth'.id].password))
        => (/\ auth'.err.status = 400
            /\ auth'.err.code = "VALIDATION_ERROR"
            /\ users' = users)]_vars

\* C25: a change-password call whose id names no principal or whose old
\* password is not the one stored returns an error and leaves the store as
\* it was (the old password still verifies, the new one does not); the
\* stored password changes in such a call only to the hash of the new one.
C25_ChangeNeedsOldSecret ==
  [][IsChangePasswordStep =>
       /\ (\/ users[auth'.id] = NoUser
           \/ users[auth'.id].password # Hash(auth'.old))
          => (auth'.err # NoErr /\ users' = users)
       /\ users' # users =>
            /\ auth'.err = NoErr
            /\ users' = [users EXCEPT ![auth'.id].password = Hash(auth'.password)]]_vars

\* A change-password call with a wrong old password has been refused: the
\* stored password is still the hash of the old secret, not of the new one.
C25_Witness ==
  /\ auth.op \in {"changePassword", "AuthController.changePassword"}
  /\ auth.err # NoErr
  /\ users[auth.id] # NoUser
  /\ auth.old = OtherPassword /\ auth.password = OtherPassword
  /\ users[auth.id].password = Hash(GoodPassword)
  /\ users[auth.id].password # Hash(auth.password)

(***************************************************************************)
(* Sessions                                                                *)
(***************************************************************************)
Count(log, call) == Cardinality({k \in 1..Len(log) : log[k] = call})

\* C26: when a call that started a transaction ends, its session has seen
\* exactly one of commitTransaction and abortTransaction, no
\* abortTransaction after a commitTransaction, and endSession last.
C26_TransactionFinishedOnce ==
  \A p \in Procs :
     (pc[p] = "done" /\ session[p] # <<>>) =>
        /\ session[p][1] = "startTransaction"
        /\ Count(session[p], "commitTransaction")
             + Count(session[p], "abortTransaction") = 1
        /\ session[p][Len(session[p])] = "endSession"
        /\ Count(session[p], "endSession") = 1

\* C27: every id a bulkDeleteUsers call returns in deleted is the id of a
\* principal that was stored when the call's transaction began.
C27_DeletedWereStored ==
  [][\A p \in Procs :
       (pc[p] = "b_commit" /\ pc'[p] = "done" /\ result'[p] = "ok") =>
          \A k \in 1..Len(results'[p].deleted) :
             snap[p][results'[p].deleted[k]] # NoUser]_vars

(***************************************************************************)
(* The permission checkboxes of the user form                              *)
(***************************************************************************)
Range(seq) == {seq[k] : k \in 1..Len(seq)}

\* p.startsWith(prefix)
startsWith(p, prefix) ==
  Len(p) >= Len(prefix) /\ SubSeq(p, 1, Len(prefix)) = prefix

\* parts.join('.')
RECURSIVE join(_)
join(parts) ==
  IF parts = <<>> THEN <<>>
  ELSE IF Len(parts) = 1 THEN parts[1]
  ELSE parts[1] \o <<Dot>> \o join(Tail(parts))

\* Set.add on a set kept in insertion order
SetAdd(perms, code) == IF code \in Range(perms) THEN perms ELSE Append(perms, code)

\* The toggle that adds the code alone.
RECURSIVE AddParentsNone(_, _, _)
AddParentsNone(perms, parts, i) == perms

\* for (let i = 1; i < parts.length; i++)
\*   newPermissions.add(parts.slice(0, i).join('.'))
RECURSIVE AddParents(_, _, _)
AddParents(perms, parts, i) ==
  IF i >= Len(parts) THEN perms
  ELSE AddParents(SetAdd(perms, join(SubSeq(parts, 1, i))), parts, i + 1)

\* handlePermissionToggle(code): the new value of prev.permissions
handlePermissionToggle(prev, code) ==
  IF code \in Range(prev)
    THEN SelectSeq(prev, LAMBDA q : q # code /\ ~startsWith(q, code \o <<Dot>>))
    ELSE AddParents(Append(prev, code), split(code), 1)

\* A checkbox of the permission tree is clicked.
PermissionToggle(code) ==
  /\ formData' = [formData EXCEPT !.permissions = handlePermissionToggle(@, code)]
  /\ UNCHANGED <<dirVars, client, capq, auth, bulk, results, utilVars>>

\* The codes of a permission tree three levels deep, as data.js has them
\* (dashboard, dashboard.analytics, dashboard.analytics.export), and a
\* top-level code that begins with the letters of another.
TreeCodes ==
  {<<"a">>, <<"a", Dot, "a">>, <<"a", Dot, "b">>, <<"a", Dot, "b", Dot, "a">>,
   <<"a", "b">>, <<"a", "b", Dot, "a">>, <<"b">>, <<"b", Dot, "a">>}

FormInit ==
  /\ DirInit
  /\ users = SeedUsers(1)
  /\ deptHeads = {}
  /\ client = NoClient
  /\ capq = NoCap
  /\ auth = NoAuth
  /\ bulk = NoBulk
  /\ results = [p \in Procs |-> NoResults]
  /\ session = [p \in Procs |-> <<>>]
  /\ formData = NoForm
  /\ par = NoPar
  /\ batch = NoBatch

FormNext == \E code \in TreeCodes : PermissionToggle(code)

SpecForm == FormInit /\ [][FormNext]_vars

\* C28: the selection stays parent-closed; a toggle of an unselected code
\* adds the code and its proper dot-prefixes and nothing else; a toggle of
\* a selected code removes the code and the selected codes below it and
\* nothing else.
C28_SelectionParentClosed ==
  [][/\ \A c \in Range(formData'.permissions) : \A q \in TreeCodes :
          IsDotPrefix(q, c) => q \in Range(formData'.permissions)
     /\ \A code \in TreeCodes :
          formData'.permissions = handlePermissionToggle(formData.permissions, code) =>
             Range(formData'.permissions) =
               IF code \in Range(formData.permissions)
                 THEN {q \in Range(formData.permissions) :
                         q # code /\ ~IsDotPrefix(code, q)}
                 ELSE Range(formData.permissions) \cup {code}
                        \cup {q \in TreeCodes : IsDotPrefix(q, code)}]_vars

\* A code three levels deep is selected with both its parents, beside a
\* code that merely begins with the same letters.
C28_Witness ==
  /\ <<"a", Dot, "b", Dot, "a">> \in Range(formData.permissions)
  /\ <<"a", Dot, "b">> \in Range(formData.permissions)
  /\ <<"a">> \in Range(formData.permissions)
  /\ <<"a", "b">> \in Range(formData.permissions)
  /\ <<"b">> \notin Range(formData.permissions)

(***************************************************************************)
(* parallelProcess                                                         *)
(***************************************************************************)
\* A microtask: the then-callback that calls the processor ("invoke"), the
\* settling of the promise of item i ("settle"), its cleanup reaction, the
\* reaction Promise.race put on it ("race"), and the continuation of the
\* await ("resume").
Job(job, i, ok) == [job |-> job, i |-> i, ok |-> ok]

\* The test that lets one promise more than the limit in.
AtLimitOffByOne(size, concurrency) == size > concurrency

\* if (executing.size >= concurrency)
AtLimit(size, concurrency) == size >= concurrency

\* await Promise.race(executing): a reaction on every member, queued at
\* once for the members that have settled.
PromiseRace(s) ==
  LET settled == SelectSeq(s.executing, LAMBDA m : s.promise[m] # "pending")
  IN [s EXCEPT
        !.loop = "await",
        !.racing = {m \in Range(s.executing) : s.promise[m] = "pending"},
        !.queue = @ \o [k \in 1..Len(settled) |->
                          Job("race", settled[k], s.promise[settled[k]])]]

\* for (const [index, item] of items.entries()): the synchronous run of the
\* loop from item s.i up to its next await or its end.
RECURSIVE Iterate(_)
Iterate(s) ==
  IF s.i > s.n THEN [s EXCEPT !.loop = "all"]
  ELSE LET t == [s EXCEPT !.processor[s.i] = "queued",
                          !.queue = Append(@, Job("invoke", s.i, "")),
                          !.executing = Append(@, s.i),
                          !.i = s.i + 1]
       IN IF AtLimit(Len(t.executing), t.concurrency) THEN PromiseRace(t)
          ELSE Iterate(t)

\* What the microtask at the head of the queue does.
RunJob(s) ==
  LET j    == Head(s.queue)
      rest == [s EXCEPT !.queue = Tail(@)]
  IN CASE j.job = "invoke" ->
            [rest EXCEPT !.processor[j.i] = "running", !.invoked[j.i] = @ + 1]
       [] j.job = "settle" ->
            [rest EXCEPT
               !.promise[j.i] = j.ok,
               !.racing = @ \ {j.i},
               !.queue = @ \o <<Job("cleanup", j.i, "")>>
                           \o (IF j.i \in s.racing THEN <<Job("race", j.i, j.ok)>>
                               ELSE <<>>)]
       [] j.job = "cleanup" ->
            [rest EXCEPT !.executing = SelectSeq(@, LAMBDA m : m # j.i)]
       [] j.job = "race" ->
            IF s.loop = "await"
              THEN [rest EXCEPT !.loop = "resuming", !.racing = {},
                                !.queue = Append(@, Job("resume", 0, j.ok))]
              ELSE rest
       [] j.job = "resume" ->
            IF j.ok = "rejected" THEN [rest EXCEPT !.loop = "thrown"]
            ELSE Iterate(rest)

\* parallelProcess(items, concurrency, processor) is called and runs to its
\* first await.
ParallelProcessCall(n, concurrency) ==
  /\ par.loop = "none"
  /\ par' = Iterate([NoPar EXCEPT
                       !.n = n, !.concurrency = concurrency,
                       !.processor = [k \in 1..n |-> "new"],
                       !.promise = [k \in 1..n |-> "pending"],
                       !.invoked = [k \in 1..n |-> 0]])
  /\ UNCHANGED <<dirVars, client, capq, auth, bulk, results, formData, batch>>

\* The event loop runs the next microtask.
ParallelRunJob ==
  /\ par.queue # <<>>
  /\ par' = RunJob(par)
  /\ UNCHANGED <<dirVars, client, capq, auth, bulk, results, formData, batch>>

\* The promise processor(item, index) returned is fulfilled or rejected.
ProcessorSettles(i, ok) ==
  /\ i \in 1..par.n
  /\ par.processor[i] = "running"
  /\ par' = [par EXCEPT !.processor[i] = ok,
                        !.queue = Append(@, Job("settle", i, ok))]
  /\ UNCHANGED <<dirVars, client, capq, auth, bulk, results, formData, batch>>

\* return Promise.all(results)
ParallelReturn ==
  /\ par.loop = "all"
  /\ par.queue = <<>>
  /\ \A k \in 1..par.n : par.promise[k] # "pending"
  /\ par' = [par EXCEPT !.loop = IF \E k \in 1..par.n : par.promise[k] = "rejected"
                                   THEN "rejected" ELSE "returned"]
  /\ UNCHANGED <<dirVars, client, capq, auth, bulk, results, formData, batch>>

ParallelInit ==
  /\ DirInit
  /\ users = SeedUsers(1)
  /\ deptHeads = {}
  /\ client = NoClient
  /\ capq = NoCap
  /\ auth = NoAuth
  /\ bulk = NoBulk
  /\ results = [p \in Procs |-> NoResults]
  /\ session = [p \in Procs |-> <<>>]
  /\ formData = NoForm
  /\ par = NoPar
  /\ batch = NoBatch

ParallelNext ==
  \/ \E n \in 0..MaxItems : \E c \in 1..MaxItems : ParallelProcessCall(n, c)
  \/ ParallelRunJob
  \/ \E i \in 1..MaxItems : \E ok \in {"fulfilled", "rejected"} : ProcessorSettles(i, ok)
  \/ ParallelReturn

SpecParallel == ParallelInit /\ [][ParallelNext]_vars

\* The processor invocations that have started and not settled.
InFlight == {k \in 1..par.n : par.processor[k] = "running"}

\* The call has returned or thrown and no microtask is left.
ParallelOver == par.loop \in {"returned", "rejected", "thrown"} /\ par.queue = <<>>

ProcessorOutcomes == {"value", "null", "throw"}

\* A callback option: not given, given and returning, given and throwing.
Callbacks == {"absent", "ok", "throws"}

\* items.slice(i, i + batchSize), as the indices of its items
Slice(b, i) ==
  {k \in 1..Len(b.items) : k >= i /\ k < i + b.batchSize}

\* Math.floor(i / batchSize) + 1
batchNumber(b, i) == ((i - 1) \div b.batchSize) + 1

\* Math.ceil(items.length / batchSize)
totalBatches(b) == (Len(b.items) + b.batchSize - 1) \div b.batchSize

\* The indices of a set in increasing order.
RECURSIVE InOrder(_)
InOrder(S) ==
  IF S = {} THEN <<>>
  ELSE LET m == CHOOSE x \in S : \A y \in S : x <= y
       IN <<m>> \o InOrder(S \ {m})

\* The for statement at item i: the next batch starts, or the loop is over
\* and { results, errors } is returned.
ForLoop(b, i) ==
  IF i > Len(b.items) THEN [b EXCEPT !.state = "returned", !.i = i, !.pending = {}]
  ELSE [b EXCEPT !.state = "running", !.i = i, !.pending = Slice(b, i),
                 !.batches = Append(@, batchNumber(b, i))]

\* catch (error) of a batch: onError, then the error is thrown again
\* unless continueOnError.
CatchBatch(b) ==
  IF b.onError = "throws" \/ ~b.continueOnError
    THEN [b EXCEPT !.state = "rejected", !.pending = {}]
    ELSE ForLoop(b, b.i + b.batchSize)

\* batchResults.filter(r => r !== null), as the indices of the kept results
NonNull(b) == SelectSeq(InOrder(Slice(b, b.i)), LAMBDA k : b.items[k] = "value")

\* batchProcess(items, batchSize, processor, options) is called and starts
\* its first batch.
BatchProcessCall(items, batchSize, continueOnError, onBatchComplete, onError) ==
  /\ batch.state = "none"
  /\ batch' = ForLoop([NoBatch EXCEPT !.items = items, !.batchSize = batchSize,
                                      !.continueOnError = continueOnError,
                                      !.onBatchComplete = onBatchComplete,
                                      !.onError = onError], 1)
  /\ UNCHANGED <<dirVars, client, capq, auth, bulk, results, formData, par>>

\* processor(item, i + index) of one item of the running batch settles.
BatchItemSettles(k) ==
  /\ batch.state = "running"
  /\ k \in batch.pending
  /\ batch' =
       IF batch.items[k] = "throw"
         THEN IF batch.continueOnError
                THEN [batch EXCEPT !.errors = Append(@, k), !.pending = @ \ {k}]
                ELSE CatchBatch(batch)
         ELSE [batch EXCEPT !.pending = @ \ {k}]
  /\ UNCHANGED <<dirVars, client, capq, auth, bulk, results, formData, par>>

\* Promise.all of the batch is fulfilled: the results are collected and
\* onBatchComplete is called.
BatchComplete ==
  /\ batch.state = "running"
  /\ batch.pending = {}
  /\ LET b == [batch EXCEPT !.results = @ \o NonNull(batch)]
     IN batch' = IF b.onBatchComplete = "throws" THEN CatchBatch(b)
                 ELSE ForLoop(b, b.i + b.batchSize)
  /\ UNCHANGED <<dirVars, client, capq, auth, bulk, results, formData, par>>

BatchInit == ParallelInit

BatchInputs ==
  UNION {[1..n -> ProcessorOutcomes] : n \in 0..MaxItems}

BatchNext ==
  \/ \E items \in BatchInputs : \E batchSize \in 1..MaxItems :
       \E continueOnError \in BOOLEAN :
         \E onBatchComplete \in Callbacks : \E onError \in Callbacks :
           BatchProcessCall(items, batchSize, continueOnError, onBatchComplete, onError)
  \/ \E k \in 1..MaxItems : BatchItemSettles(k)
  \/ BatchComplete

SpecBatch == BatchInit /\ [][BatchNext]_vars

\* C30: a batchProcess call with continueOnError = true never rejects, runs
\* batch 1, 2, ... in order up to the last one, and when it returns every
\* item is in results or in errors, so |results| + |errors| = |items|.
C30_ContinueOnErrorAccountsForEveryItem ==
  batch.continueOnError =>
    /\ batch.state # "rejected"
    /\ batch.batches = [j \in 1..Len(batch.batches) |-> j]
    /\ batch.state = "returned" =>
         /\ Len(batch.batches) = totalBatches(batch)
         /\ \A k \in 1..Len(batch.items) :
              k \in Range(batch.results) \/ k \in Range(batch.errors)
         /\ Len(batch.results) + Len(batch.errors) = Len(batch.items)

TypeOK == nextId \in 1..(MaxId + 1)

====
